---- MODULE Spec2Model ----
(***************************************************************************)
(* Model of pymilvus/bulk_writer/bulk_import.py (the bulk-import REST      *)
(* client: bulk_insert, get_job_progress, list_jobs over _post_request and *)
(* _get_request) and of examples/example_bulkwriter.py::test_bulkinsert.   *)
(*                                                                         *)
(* A call is executed by a thread in steps: the request is issued, the     *)
(* transport answers (a response or an exception), the status is           *)
(* validated, the except handler re-throws, the body is decoded and, for   *)
(* bulk_insert, the job id is checked.  Text is a sequence of tokens: an   *)
(* f-string is the concatenation of its pieces, and "the message embeds x" *)
(* means x is one of its tokens.                                           *)
(***************************************************************************)
EXTENDS Integers, Sequences, FiniteSets, TLC

VARIABLES pc, call, reqs, wire, err, res, result, log, ncalls,
          spc, id, submitted, trace

vars == <<pc, call, reqs, wire, err, res, result, log, ncalls,
          spc, id, submitted, trace>>
scriptVars == <<spc, id, submitted, trace>>

(* ------------------------------ bounds -------------------------------- *)

\* number of threads calling bulk_insert concurrently (SpecConc)
NThreads == 2
\* number of calls the sequential caller makes (Spec)
MaxCalls == 2

Threads == 1..NThreads
\* the sequential caller of Spec, which also runs the example script
MainThreads == {1}

(* --------------------------- input domains ---------------------------- *)

Urls == {"https://svc/a", "https://svc/b"}
ClusterIds == {"in01-x", "in01-y"}
JobIds == {"j1", "j2"}
PartitionNames == {"None", "part1"}
Pages == {1, 2}

BulkInsertCalls(urls, clusters, partitions) ==
    [op : {"bulk_insert"}, url : urls, object_url : {"s3://data/"},
     access_key : {"ak"}, secret_key : {"sk"}, cluster_id : clusters,
     collection_name : {"coll"}, partition_name : partitions]

GetJobProgressCalls ==
    [op : {"get_job_progress"}, url : Urls, job_id : JobIds, cluster_id : ClusterIds]

ListJobsCalls ==
    [op : {"list_jobs"}, url : Urls, cluster_id : ClusterIds,
     page_size : {10}, current_page : Pages]

AllCalls == BulkInsertCalls(Urls, ClusterIds, PartitionNames)
              \cup GetJobProgressCalls \cup ListJobsCalls

\* JSON values a response body can decode to, and a body that is not JSON
Undecodable == [kind |-> "undecodable"]
JsonNumber == [kind |-> "number"]
JsonArray(items) == [kind |-> "array", items |-> items]
JsonString(text) == [kind |-> "string", text |-> text]
JsonObject(fields) == [kind |-> "object", fields |-> fields]

NoField == <<>>
JobObjects ==
    { JsonObject(top @@ data) :
        top \in {NoField} \cup {"jobID" :> j : j \in JobIds},
        data \in {NoField} \cup {"data" :> ("jobId" :> j) : j \in JobIds} }
ListingObject ==
    JsonObject("jobs" :> <<("jobID" :> "j1"), ("jobID" :> "j2")>>)

Bodies == JobObjects \cup
          {ListingObject, JsonArray(<<"x">>), JsonArray(<<"jobID">>),
           JsonString(<<"jobID">>), JsonNumber, Undecodable}

Statuses == {199, 200, 299, 300, 404, 500}

\* what the transport can do with one request: raise, or deliver a response
Errors == { [kind |-> "error", exc |-> [type |-> ty, message |-> <<tx>>]] :
              <<ty, tx>> \in {<<"Timeout", "timed out">>,
                              <<"ConnectionError", "connection refused">>} }
Responses(statuses, bodies) ==
    [kind : {"response"}, status_code : statuses, body : bodies]
AllOutcomes == Errors \cup Responses(Statuses, Bodies)

NoReply == [kind |-> "none"]
NoErr == [type |-> "none", message |-> <<>>]
NoJson == [kind |-> "none"]
NoResult == [kind |-> "none"]
NoCall == [op |-> "none"]

(* ------------------------- bulk_import.py ----------------------------- *)

\* the bounds of "resp.status_code < 200 or resp.status_code >= 300"
StatusOkFirst == 200
StatusOkEnd == 300

DefaultTimeout == 20

http_headers ==
    "User-Agent" :> "Mozilla/5.0 (Macintosh; Intel Mac OS X 10_7_0) AppleWebKit/535.11 (KHTML, like Gecko) Chrome/17.0.963.56 Safari/535.11"
    @@ "Accept" :> "text/html,application/xhtml+xml,application/xml;q=0.9,image/webp,*/*;q=0.8"
    @@ "Accept-Encodin" :> "gzip,deflate,sdch"
    @@ "Accept-Languag" :> "en-US,en;q=0.5"

\* MilvusException(message=msg)
MilvusException(msg) == [type |-> "MilvusException", message |-> msg]

\* str(err): a MilvusException prints its class, code and message; an
\* exception of the transport prints its text
StrOfException(e) ==
    IF e.type = "MilvusException"
    THEN <<"<MilvusException: (code=1, message=">> \o e.message \o <<")>">>
    ELSE e.message

\* _throw(msg): logger.error(msg), then raise MilvusException(message=msg)
throw_log(msg) == Append(log, msg)

\* variant: the upper bound taken inclusive, so that 300 passes
status_failed_off_by_one(status_code) ==
    status_code < StatusOkFirst \/ status_code > StatusOkEnd
status_failed(status_code) ==
    status_code < StatusOkFirst \/ status_code >= StatusOkEnd

Verb(c) == IF c.op = "bulk_insert" THEN "post" ELSE "get"

status_msg(c, status_code) ==
    <<"Failed to " \o Verb(c) \o " url: ", c.url, ", status code: ",
      ToString(status_code)>>

\* variant: the URL left out of the text
error_msg_no_url(c, e) ==
    <<"Failed to " \o Verb(c) \o " url: ", ", error: ">> \o StrOfException(e)
error_msg(c, e) ==
    <<"Failed to " \o Verb(c) \o " url: ", c.url, ", error: ">>
        \o StrOfException(e)

no_job_id_msg == <<"Illegal result from bulkinsert call: no job id">>

\* variant: params kept in one module-level dict, which holds what some
\* call in progress wrote last
bulk_insert_params_shared(t) ==
    LET u == CHOOSE u \in Threads : call[u].op = "bulk_insert"
        c == call[u]
    IN  [objectUrl |-> c.object_url, accessKey |-> c.access_key,
         secretKey |-> c.secret_key, clusterId |-> c.cluster_id,
         collectionName |-> c.collection_name,
         partitionName |-> c.partition_name]
bulk_insert_params(t) ==
    LET c == call[t]
    IN  [objectUrl |-> c.object_url, accessKey |-> c.access_key,
         secretKey |-> c.secret_key, clusterId |-> c.cluster_id,
         collectionName |-> c.collection_name,
         partitionName |-> c.partition_name]

\* variant: the two arguments exchanged
get_job_progress_params_swapped(t) ==
    [jobID |-> call[t].cluster_id, clusterId |-> call[t].job_id]
get_job_progress_params(t) ==
    [jobID |-> call[t].job_id, clusterId |-> call[t].cluster_id]

list_jobs_params(t) ==
    [clusterId |-> call[t].cluster_id, pageSize |-> call[t].page_size,
     currentPage |-> call[t].current_page]

\* requests.post(url=url, headers=_http_headers(), data=params, timeout=timeout)
requests_post(url, params) ==
    [method |-> "POST", url |-> url, headers |-> http_headers,
     data |-> params, timeout |-> DefaultTimeout]

\* requests.get(url=url, headers=_http_headers(), params=params, timeout=timeout)
requests_get(url, params) ==
    [method |-> "GET", url |-> url, headers |-> http_headers,
     params |-> params, timeout |-> DefaultTimeout]

RequestOf(t) ==
    CASE call[t].op = "bulk_insert" ->
            requests_post(call[t].url, bulk_insert_params(t))
      [] call[t].op = "get_job_progress" ->
            requests_get(call[t].url, get_job_progress_params(t))
      [] call[t].op = "list_jobs" ->
            requests_get(call[t].url, list_jobs_params(t))

\* "jobID" in res: membership in a mapping's keys, a list's items or a
\* string's text; a TypeError for a value that is no container
\* variant: the test left out
job_id_test_always(r) == "present"
job_id_test(r) ==
    CASE r.kind = "object" ->
            IF "jobID" \in DOMAIN r.fields THEN "present" ELSE "absent"
      [] r.kind = "array" ->
            IF \E i \in 1..Len(r.items) : r.items[i] = "jobID"
            THEN "present" ELSE "absent"
      [] r.kind = "string" ->
            IF \E i \in 1..Len(r.text) : r.text[i] = "jobID"
            THEN "present" ELSE "absent"
      [] OTHER -> "TypeError"

(* ------------------------------ state --------------------------------- *)

Init ==
    /\ pc = [t \in Threads |-> "idle"]
    /\ call = [t \in Threads |-> NoCall]
    /\ reqs = [t \in Threads |-> <<>>]
    /\ wire = [t \in Threads |-> NoReply]
    /\ err = [t \in Threads |-> NoErr]
    /\ res = [t \in Threads |-> NoJson]
    /\ result = [t \in Threads |-> NoResult]
    /\ log = <<>>
    /\ ncalls = 0
    /\ spc = "start"
    /\ id = "none"
    /\ submitted = NoResult
    /\ trace = <<>>

\* entering one of the three functions with arguments c: fresh locals
Enter(t, c) ==
    /\ pc' = [pc EXCEPT ![t] = "request"]
    /\ call' = [call EXCEPT ![t] = c]
    /\ reqs' = [reqs EXCEPT ![t] = <<>>]
    /\ wire' = [wire EXCEPT ![t] = NoReply]
    /\ err' = [err EXCEPT ![t] = NoErr]
    /\ res' = [res EXCEPT ![t] = NoJson]
    /\ result' = [result EXCEPT ![t] = NoResult]
    /\ log' = log

\* a caller invokes one of the functions of calls
Call(t, calls) ==
    /\ pc[t] = "idle"
    /\ ncalls < MaxCalls
    /\ \E c \in calls : Enter(t, c)
    /\ ncalls' = ncalls + 1
    /\ UNCHANGED scriptVars

\* a thread is started on one of the functions of calls
Start(t, calls) ==
    /\ pc[t] = "idle"
    /\ \E c \in calls : Enter(t, c)
    /\ UNCHANGED <<ncalls, scriptVars>>

\* the helper issues the request: requests.post / requests.get
send_request(t) ==
    /\ pc[t] = "request"
    /\ reqs' = [reqs EXCEPT ![t] = Append(@, RequestOf(t))]
    /\ pc' = [pc EXCEPT ![t] = "wait"]
    /\ UNCHANGED <<call, wire, err, res, result, log, ncalls, scriptVars>>

\* the transport ends the exchange: requests.post / requests.get raises
\* (control passes to the except clause) or returns a response
transport(t, outcomes) ==
    /\ pc[t] = "wait"
    /\ \E o \in outcomes :
         /\ wire' = [wire EXCEPT ![t] = o]
         /\ IF o.kind = "error"
            THEN /\ err' = [err EXCEPT ![t] = o.exc]
                 /\ pc' = [pc EXCEPT ![t] = "except"]
            ELSE /\ err' = err
                 /\ pc' = [pc EXCEPT ![t] = "status"]
    /\ UNCHANGED <<call, reqs, res, result, log, ncalls, scriptVars>>

\* if resp.status_code < 200 or resp.status_code >= 300: _throw(...), raised
\* inside the try and so caught by its except clause; else: return resp
validate_status(t) ==
    /\ pc[t] = "status"
    /\ IF status_failed(wire[t].status_code)
       THEN LET msg == status_msg(call[t], wire[t].status_code)
            IN  /\ log' = throw_log(msg)
                /\ err' = [err EXCEPT ![t] = MilvusException(msg)]
                /\ pc' = [pc EXCEPT ![t] = "except"]
       ELSE /\ pc' = [pc EXCEPT ![t] = "json"]
            /\ UNCHANGED <<log, err>>
    /\ UNCHANGED <<call, reqs, wire, res, result, ncalls, scriptVars>>

\* variant: a handler that tries the request again instead of failing
except_retry(t) ==
    /\ pc[t] = "except"
    /\ log' = throw_log(error_msg(call[t], err[t]))
    /\ pc' = [pc EXCEPT ![t] = "request"]
    /\ UNCHANGED <<call, reqs, wire, err, res, result, ncalls, scriptVars>>

\* except Exception as err: _throw(f"Failed to ... url: {url}, error: {err}")
\* the MilvusException leaves the helper and the calling function
except_throw(t) ==
    /\ pc[t] = "except"
    /\ LET msg == error_msg(call[t], err[t])
       IN  /\ log' = throw_log(msg)
           /\ result' = [result EXCEPT ![t] =
                           [kind |-> "raised", exc |-> MilvusException(msg)]]
    /\ pc' = [pc EXCEPT ![t] = "done"]
    /\ UNCHANGED <<call, reqs, wire, err, res, ncalls, scriptVars>>

\* variant: only one field of a mapping handed back
json_first_field(r) ==
    IF r.kind = "object" /\ DOMAIN r.fields # {}
    THEN LET k == CHOOSE k \in DOMAIN r.fields : TRUE
         IN  JsonObject(k :> r.fields[k])
    ELSE r
\* what the function hands back of the decoded body: the body itself
passed_through(r) == r

\* resp.json(), outside any try: a body that is not JSON raises the
\* decoder's error; get_job_progress and list_jobs return the value
resp_json(t) ==
    /\ pc[t] = "json"
    /\ LET body == wire[t].body
       IN  IF body.kind = "undecodable"
           THEN /\ result' = [result EXCEPT ![t] =
                     [kind |-> "raised",
                      exc |-> [type |-> "JSONDecodeError",
                               message |-> <<"Expecting value">>]]]
                /\ pc' = [pc EXCEPT ![t] = "done"]
                /\ res' = res
           ELSE IF call[t].op = "bulk_insert"
           THEN /\ res' = [res EXCEPT ![t] = body]
                /\ pc' = [pc EXCEPT ![t] = "jobid"]
                /\ result' = result
           ELSE /\ res' = [res EXCEPT ![t] = body]
                /\ result' = [result EXCEPT ![t] =
                     [kind |-> "returned", value |-> passed_through(body)]]
                /\ pc' = [pc EXCEPT ![t] = "done"]
    /\ UNCHANGED <<call, reqs, wire, err, log, ncalls, scriptVars>>

\* if "jobID" not in res: raise MilvusException(message=msg); return res
check_job_id(t) ==
    /\ pc[t] = "jobid"
    /\ LET found == job_id_test(res[t])
       IN  result' = [result EXCEPT ![t] =
             CASE found = "TypeError" ->
                    [kind |-> "raised",
                     exc |-> [type |-> "TypeError",
                              message |-> <<"argument is not iterable">>]]
               [] found = "absent" ->
                    [kind |-> "raised", exc |-> MilvusException(no_job_id_msg)]
               [] found = "present" ->
                    [kind |-> "returned", value |-> passed_through(res[t])]]
    /\ pc' = [pc EXCEPT ![t] = "done"]
    /\ UNCHANGED <<call, reqs, wire, err, res, log, ncalls, scriptVars>>

\* the call is over: its value or exception is with the caller
Return(t) ==
    /\ pc[t] = "done"
    /\ pc' = [pc EXCEPT ![t] = "idle"]
    /\ UNCHANGED <<call, reqs, wire, err, res, result, log, ncalls, scriptVars>>

\* one step of a call in progress
Step(t, outcomes) ==
    \/ send_request(t)
    \/ transport(t, outcomes)
    \/ validate_status(t)
    \/ except_throw(t)
    \/ resp_json(t)
    \/ check_job_id(t)

\* one caller, one call after the other, any function and any answer
Next ==
    \E t \in MainThreads :
        \/ Call(t, AllCalls)
        \/ Step(t, AllOutcomes)
        \/ Return(t)

Spec == Init /\ [][Next]_vars

(* ---------------- concurrent bulk_insert calls (threads) -------------- *)

ConcCalls == BulkInsertCalls(Urls, ClusterIds, {"None"})
ConcOutcomes ==
    { o \in Errors : o.exc.type = "Timeout" } \cup
    Responses({200, 404},
              {JsonObject("jobID" :> "j1"), JsonObject("jobID" :> "j2"),
               JsonObject(NoField)})

\* every thread runs bulk_insert once; the steps of the calls interleave
NextConc ==
    \E t \in Threads :
        \/ Start(t, ConcCalls)
        \/ Step(t, ConcOutcomes)

SpecConc == Init /\ [][NextConc]_vars

(* ------------- example_bulkwriter.py: test_bulkinsert ----------------- *)

ImportUrl == "https://controller.api.aws-us-west-2.cloud-sit.zilliz.com/v1/vector/collections/import"
ScriptClusterId == "in01-6e64b4d2870ae54"

ScriptBulkInsert ==
    [op |-> "bulk_insert", url |-> ImportUrl,
     object_url |-> "data_path", access_key |-> "access_key",
     secret_key |-> "secret_key", cluster_id |-> ScriptClusterId,
     collection_name |-> "MultiFieldCollection", partition_name |-> "None"]

ScriptGetJobProgress(job_id) ==
    [op |-> "get_job_progress", url |-> ImportUrl \o "/get",
     job_id |-> job_id, cluster_id |-> ScriptClusterId]

ScriptListJobs ==
    [op |-> "list_jobs", url |-> ImportUrl \o "/list",
     cluster_id |-> ScriptClusterId, page_size |-> 10, current_page |-> 1]

\* resp['data']['jobId'] can be evaluated: resp and resp['data'] are
\* mappings holding the keys
has_data_job_id(r) ==
    /\ r.kind = "object"
    /\ "data" \in DOMAIN r.fields
    /\ "jobId" \in DOMAIN r.fields["data"]

\* the script stops on an exception: nothing in it catches one
ScriptStops(t, how) ==
    /\ spc' = how
    /\ pc' = [pc EXCEPT ![t] = "idle"]
    /\ UNCHANGED <<call, reqs, wire, err, res, result, log>>

\* resp = bulk_insert(url=url, object_url=data_path, ...)
script_bulk_insert(t) ==
    /\ spc = "start"
    /\ pc[t] = "idle"
    /\ Enter(t, ScriptBulkInsert)
    /\ spc' = "bulk_insert"
    /\ UNCHANGED <<ncalls, id, submitted, trace>>

\* bulk_insert is over: print(resp); id = resp['data']['jobId'];
\* resp = get_job_progress(url=url, job_id=id, cluster_id=...)
script_get_job_progress(t) ==
    /\ spc = "bulk_insert"
    /\ pc[t] = "done"
    /\ trace' = trace \o reqs[t]
    /\ submitted' = result[t]
    /\ IF result[t].kind = "raised"
       THEN /\ ScriptStops(t, "raised")
            /\ id' = id
       ELSE IF has_data_job_id(result[t].value)
       THEN /\ id' = result[t].value.fields["data"]["jobId"]
            /\ Enter(t, ScriptGetJobProgress(id'))
            /\ spc' = "get_job_progress"
       ELSE /\ ScriptStops(t, "KeyError")
            /\ id' = id
    /\ UNCHANGED ncalls

\* get_job_progress is over: print(resp); resp = list_jobs(url=url, ...)
script_list_jobs(t) ==
    /\ spc = "get_job_progress"
    /\ pc[t] = "done"
    /\ trace' = trace \o reqs[t]
    /\ IF result[t].kind = "raised"
       THEN ScriptStops(t, "raised")
       ELSE /\ Enter(t, ScriptListJobs)
            /\ spc' = "list_jobs"
    /\ UNCHANGED <<ncalls, id, submitted>>

\* list_jobs is over: print(resp), the end of test_bulkinsert
script_end(t) ==
    /\ spc = "list_jobs"
    /\ pc[t] = "done"
    /\ trace' = trace \o reqs[t]
    /\ ScriptStops(t, IF result[t].kind = "raised" THEN "raised" ELSE "end")
    /\ UNCHANGED <<ncalls, id, submitted>>

NextScript ==
    \E t \in MainThreads :
        \/ script_bulk_insert(t)
        \/ Step(t, AllOutcomes)
        \/ script_get_job_progress(t)
        \/ script_list_jobs(t)
        \/ script_end(t)

SpecScript == Init /\ [][NextScript]_vars

(* ------------------------------ claims -------------------------------- *)

Embeds(msg, token) == \E i \in 1..Len(msg) : msg[i] = token

Answered(t) == pc[t] = "done" /\ wire[t].kind = "response"
Status2xx(t) == wire[t].status_code >= 200 /\ wire[t].status_code < 300
Raised(t, type) == result[t].kind = "raised" /\ result[t].exc.type = type

\* C1: for each of the three functions, a response whose status code is
\* below 200 or at least 300 (199 and 300 included) ends the call with a
\* MilvusException whose message embeds the URL of the call and the status
\* code; the body is never decoded and nothing is returned.
C1_NonSuccessStatusRaises ==
    \A t \in Threads :
        (wire[t].kind = "response" /\ ~Status2xx(t)) =>
            /\ pc[t] \notin {"json", "jobid"}
            /\ result[t].kind # "returned"
            /\ pc[t] = "done" =>
                /\ Raised(t, "MilvusException")
                /\ Embeds(result[t].exc.message, call[t].url)
                /\ Embeds(result[t].exc.message, ToString(wire[t].status_code))

C1_Witness ==
    \E t \in Threads :
        /\ Answered(t) /\ wire[t].status_code = 300
        /\ call[t].op = "list_jobs"
        /\ Raised(t, "MilvusException")

\* C2: a bulk_insert call answered with a status in [200,300) and a JSON
\* mapping without the key jobID raises a MilvusException, the kind of the
\* status-code failure, whose message is none of the status-code messages;
\* nothing is returned.
C2_MissingJobIdRaises ==
    \A t \in Threads :
        ( /\ Answered(t) /\ Status2xx(t)
          /\ call[t].op = "bulk_insert"
          /\ wire[t].body.kind = "object"
          /\ "jobID" \notin DOMAIN wire[t].body.fields ) =>
            /\ Raised(t, "MilvusException")
            /\ \A s \in Statuses :
                 /\ result[t].exc.message # status_msg(call[t], s)
                 /\ result[t].exc.message #
                        error_msg(call[t], MilvusException(status_msg(call[t], s)))
                 /\ ~Embeds(result[t].exc.message, ToString(s))

C2_Witness ==
    \E t \in Threads :
        /\ Answered(t) /\ wire[t].status_code = 200
        /\ call[t].op = "bulk_insert"
        /\ wire[t].body = JsonObject("data" :> ("jobId" :> "j1"))
        /\ Raised(t, "MilvusException")

\* C3: every call that is over has returned the decoded response or raised
\* a MilvusException: no other kind of error reaches the caller, whatever
\* the exchange gave (status, transport exception, body without jobID, body
\* that is no JSON mapping).
C3_SingleErrorKind ==
    \A t \in Threads :
        pc[t] = "done" =>
            \/ result[t].kind = "returned"
            \/ Raised(t, "MilvusException")

\* C4 as stated: the message of every MilvusException the three functions
\* raise embeds the URL of the call, the missing-job-id case included.
C4_EveryMessageEmbedsUrl ==
    \A t \in Threads :
        (pc[t] = "done" /\ Raised(t, "MilvusException")) =>
            Embeds(result[t].exc.message, call[t].url)

\* C4 amended: the message embeds the URL of the call when the failure is a
\* status code that is not 2xx or a transport exception; the message of the
\* missing-job-id check of bulk_insert is a fixed text without the URL.
C4_HelperMessagesEmbedUrl ==
    \A t \in Threads :
        (pc[t] = "done" /\ Raised(t, "MilvusException")) =>
            IF wire[t].kind = "error" \/ ~Status2xx(t)
            THEN Embeds(result[t].exc.message, call[t].url)
            ELSE /\ call[t].op = "bulk_insert"
                 /\ result[t].exc.message =
                        <<"Illegal result from bulkinsert call: no job id">>
                 /\ ~Embeds(result[t].exc.message, call[t].url)

C4_Witness ==
    \E t \in Threads :
        /\ pc[t] = "done" /\ wire[t].kind = "error"
        /\ wire[t].exc.type = "ConnectionError"
        /\ Raised(t, "MilvusException")
        /\ Embeds(result[t].exc.message, "connection refused")

ContainsJobId(body) ==
    \/ body.kind = "object" /\ "jobID" \in DOMAIN body.fields
    \/ body.kind = "array" /\ Embeds(body.items, "jobID")
    \/ body.kind = "string" /\ Embeds(body.text, "jobID")

\* C5: on a status in [200,300) with a body that decodes, get_job_progress
\* and list_jobs return the decoded body whatever its shape, and bulk_insert
\* returns it when it contains jobID: the value returned is the body, with
\* the same fields and the same jobID.
C5_BodyPassedThrough ==
    \A t \in Threads :
        ( /\ Answered(t) /\ Status2xx(t)
          /\ wire[t].body.kind # "undecodable"
          /\ call[t].op = "bulk_insert" => ContainsJobId(wire[t].body) ) =>
            /\ result[t].kind = "returned"
            /\ result[t].value = wire[t].body
            /\ (wire[t].body.kind = "object" /\ call[t].op = "bulk_insert") =>
                 /\ DOMAIN result[t].value.fields = DOMAIN wire[t].body.fields
                 /\ result[t].value.fields["jobID"] = wire[t].body.fields["jobID"]

C5_Witness ==
    \E t \in Threads :
        /\ Answered(t) /\ wire[t].status_code = 299
        /\ call[t].op = "bulk_insert"
        /\ wire[t].body = JsonObject("jobID" :> "j2" @@ "data" :> ("jobId" :> "j1"))
        /\ result[t].kind = "returned"
        /\ result[t].value.fields["jobID"] = "j2"

\* C6: a call sends exactly one request: none before the helper issues it,
\* one from then on, whether the call ends by a status failure, a transport
\* exception or a return.
C6_OneRequestPerCall ==
    \A t \in Threads :
        /\ Len(reqs[t]) <= 1
        /\ pc[t] = "request" => Len(reqs[t]) = 0
        /\ pc[t] \in {"wait", "status", "except", "json", "jobid", "done"} =>
               Len(reqs[t]) = 1

C6_Witness ==
    \E t \in Threads :
        /\ pc[t] = "done" /\ wire[t].kind = "error"
        /\ wire[t].exc.type = "Timeout"
        /\ result[t].kind = "raised"
        /\ Len(reqs[t]) = 1

\* the form fields the interface table gives for the arguments c
FormOf(c) ==
    [objectUrl |-> c.object_url, accessKey |-> c.access_key,
     secretKey |-> c.secret_key, clusterId |-> c.cluster_id,
     collectionName |-> c.collection_name, partitionName |-> c.partition_name]

C7_OwnExchange ==
    \A t \in Threads :
        /\ Len(reqs[t]) <= 1
        /\ pc[t] \notin {"idle", "request"} => Len(reqs[t]) = 1
        /\ \A i \in 1..Len(reqs[t]) :
             /\ reqs[t][i].url = call[t].url
             /\ reqs[t][i].data = FormOf(call[t])
        /\ pc[t] = "done" =>
             /\ result[t].kind = "returned" =>
                  /\ wire[t].kind = "response"
                  /\ result[t].value = wire[t].body
             /\ result[t].kind = "raised" =>
                  /\ wire[t].kind = "error" =>
                       Embeds(result[t].exc.message, wire[t].exc.message[1])
                  /\ \A u \in Urls \ {call[t].url} :
                       ~Embeds(result[t].exc.message, u)

\* a step that leaves a thread's position alone leaves all its locals alone
C7_NoInterference ==
    \A t \in Threads :
        pc'[t] = pc[t] =>
            /\ call'[t] = call[t] /\ reqs'[t] = reqs[t] /\ wire'[t] = wire[t]
            /\ err'[t] = err[t] /\ res'[t] = res[t] /\ result'[t] = result[t]

\* C7: in every interleaving of concurrent bulk_insert calls each call sends
\* one request, built from its own arguments only, and ends with the outcome
\* of its own exchange; a step of one call changes nothing of another call.
C7_IndependentCalls == []C7_OwnExchange /\ [][C7_NoInterference]_vars

C7_Witness ==
    \E t, u \in Threads :
        /\ pc[t] = "done" /\ pc[u] = "done"
        /\ call[t].url # call[u].url /\ call[t].cluster_id # call[u].cluster_id
        /\ result[t].kind = "returned" /\ result[u].kind = "returned"
        /\ result[t].value # result[u].value

\* C8: every request is built from the arguments of its call alone, with the
\* method and the parameter names of the interface table: bulk_insert a POST
\* with the six form fields, get_job_progress a GET with jobID and
\* clusterId, list_jobs a GET with clusterId, pageSize and currentPage, each
\* to the URL given and each parameter with the value of its argument.
C8_RequestFromArguments ==
    \A t \in Threads : \A i \in 1..Len(reqs[t]) :
        LET r == reqs[t][i]
            c == call[t]
        IN  /\ r.url = c.url
            /\ c.op = "bulk_insert" =>
                 /\ r.method = "POST"
                 /\ r.data = FormOf(c)
                 /\ "params" \notin DOMAIN r
            /\ c.op = "get_job_progress" =>
                 /\ r.method = "GET"
                 /\ r.params = [jobID |-> c.job_id, clusterId |-> c.cluster_id]
                 /\ "data" \notin DOMAIN r
            /\ c.op = "list_jobs" =>
                 /\ r.method = "GET"
                 /\ r.params = [clusterId |-> c.cluster_id,
                                pageSize |-> c.page_size,
                                currentPage |-> c.current_page]
                 /\ "data" \notin DOMAIN r

C8_Witness ==
    \E t \in Threads :
        /\ call[t].op = "get_job_progress"
        /\ call[t].job_id = "j2" /\ call[t].cluster_id = "in01-y"
        /\ Len(reqs[t]) = 1
        /\ reqs[t][1].params.jobID = "j2"

\* C9: every request, POST or GET, carries the four headers User-Agent,
\* Accept, Accept-Encoding and Accept-Language, the same for every call.
C9_FixedHeaders ==
    \A t \in Threads : \A i \in 1..Len(reqs[t]) :
        /\ DOMAIN reqs[t][i].headers =
              {"User-Agent", "Accept", "Accept-Encoding", "Accept-Language"}
        /\ \A u \in Threads : \A j \in 1..Len(reqs[u]) :
              reqs[u][j].headers = reqs[t][i].headers

\* the job identifiers a submission's response holds
IdentifiersIn(r) ==
    IF r.kind # "object" THEN {}
    ELSE (IF "jobID" \in DOMAIN r.fields THEN {r.fields["jobID"]} ELSE {})
         \cup (IF has_data_job_id(r) THEN {r.fields["data"]["jobId"]} ELSE {})

\* C10: test_bulkinsert sends submit, progress, list in this order; once
\* bulk_insert has returned a mapping (it holds jobID: the check of the
\* client passed), the script goes on to get_job_progress with a job
\* identifier of that response; once bulk_insert has raised, nothing more
\* is sent.
C10_ScriptWorkflow ==
    /\ \A i \in 1..Len(trace) :
         trace[i].url = <<ImportUrl, ImportUrl \o "/get", ImportUrl \o "/list">>[i]
    /\ Len(trace) <= 3
    /\ submitted.kind = "raised" => spc = "raised" /\ Len(trace) = 1
    /\ (submitted.kind = "returned" /\ submitted.value.kind = "object") =>
         /\ spc \in {"get_job_progress", "list_jobs", "end", "raised"}
         /\ id \in IdentifiersIn(submitted.value)
         /\ Len(trace) >= 2 => trace[2].params.jobID = id
====
